---------------------------- MODULE Spec2Model ----------------------------
(***************************************************************************)
(* Forward kinematics of the COMAU Smart Six 6-1.4 (Standard DH) and the   *)
(* grid searches that calibrate it.                                        *)
(*                                                                         *)
(* Numbers.  Angles are whole degrees (the scripts build every joint       *)
(* vector with np.deg2rad of whole degrees).  Lengths are tenths of a      *)
(* millimetre.  Sines and cosines are fixed-point numbers scaled by        *)
(* Scale, read from a one-degree table; at multiples of 90 degrees they    *)
(* are exactly 0 or +-Scale, so every position computed there is exact.    *)
(***************************************************************************)
EXTENDS Integers, Sequences, FiniteSets, TLC

VARIABLES
    chain,        \* FK: name of the chain being evaluated
    q,            \* FK: joint vector, degrees
    frames,       \* FK: result of fkine_all (sequence of frames), <<>> before
    pose,         \* FK: result of fkine (one frame), <<>> before
    fk_pc         \* FK: "ready" | "fkine_done" | "fkine_all_done" | "idle"

fkVars == <<chain, q, frames, pose, fk_pc>>

VARIABLES
    prog,         \* search: which script is running
    target_i,     \* search: index of the target being searched
    phase,        \* search: 1 = grid search, 2 = fine-tuning
    idx,          \* search: loop indices of the next candidate, <<>> when the loops are over
    best_error,   \* search: best_error (squared, see Err2)
    best_config,  \* search: <<assignment, position>>, <<>> for None
    base_q,       \* search: base_q of the fine-tuning phase, <<>> before
    matches,      \* search: number of match lines printed
    first_match,  \* search: assignment of the first match line printed, <<>> if none
    evals,        \* search: number of fkine calls made
    reports,      \* search: the best-match reports printed, <<assignment, position, error>>
    warned,       \* search: the 30 mm warning was printed
    ret,          \* search: the value returned, <<>> before the return
    pc            \* search: "loop" | "done" | "raised" | "idle"

srVars == <<prog, target_i, phase, idx, best_error, best_config, base_q, matches,
            first_match, evals, reports, warned, ret, pc>>

VARIABLES
    test_cases,   \* validation: the table of cases, in dict order
    case_i,       \* validation: index of the case the for loop is at
    all_passed,   \* validation: all_passed
    rows,         \* validation: the result rows printed so far
    vl_ret,       \* validation: <<value returned>>, <<>> before the return
    vl_pc         \* validation: "loop" | "done" | "idle"

vlVars == <<test_cases, case_i, all_passed, rows, vl_ret, vl_pc>>

VARIABLES
    robot,        \* web app: the links of the module-level robot instance
    created,      \* web app: number of create_comau_robot() calls made
    with_base,    \* web app: the installed toolbox's fkine_all returns the base frame too
    data,         \* web app: JSON body of the last request, <<>> before
    exc,          \* web app: message of the exception caught in the last request, "" if none
    response,     \* web app: the last response, <<>> before
    first_call    \* web app: <<q, response, others, repeats>> of the first /fkine request
                  \* that reached the try block, <<>> before; others = 1 once another
                  \* request was answered after it, repeats = 1 once its q was
                  \* requested again after that

apVars == <<robot, created, with_base, data, exc, response, first_call>>

vars == <<fkVars, srVars, vlVars, apVars>>

-----------------------------------------------------------------------------
(* Fixed-point trigonometry *)

\* round(Scale * sin(k degrees)) for k = 0..90
SinTable ==
    <<    0,  175,  349,  523,  698,  872, 1045, 1219, 1392, 1564,
       1736, 1908, 2079, 2250, 2419, 2588, 2756, 2924, 3090, 3256,
       3420, 3584, 3746, 3907, 4067, 4226, 4384, 4540, 4695, 4848,
       5000, 5150, 5299, 5446, 5592, 5736, 5878, 6018, 6157, 6293,
       6428, 6561, 6691, 6820, 6947, 7071, 7193, 7314, 7431, 7547,
       7660, 7771, 7880, 7986, 8090, 8192, 8290, 8387, 8480, 8572,
       8660, 8746, 8829, 8910, 8988, 9063, 9135, 9205, 9272, 9336,
       9397, 9455, 9511, 9563, 9613, 9659, 9703, 9744, 9781, 9816,
       9848, 9877, 9903, 9925, 9945, 9962, 9976, 9986, 9994, 9998,
      10000 >>

\* the fixed-point unit: sin(90 degrees)
Scale == SinTable[91]

Sin(deg) ==
    LET d == deg % 360 IN
    IF d <= 90 THEN SinTable[d + 1]
    ELSE IF d <= 180 THEN SinTable[180 - d + 1]
    ELSE IF d <= 270 THEN -SinTable[d - 180 + 1]
    ELSE -SinTable[360 - d + 1]

Cos(deg) == Sin(deg + 90)

\* a product of two scaled numbers brought back to one scale, rounded to nearest
Rnd(x) == IF x >= 0 THEN (x + Scale \div 2) \div Scale
          ELSE -((-x + Scale \div 2) \div Scale)

-----------------------------------------------------------------------------
(* Links and chains *)

\* qlim of a link built without joint limits
NoLimit == <<>>

\* RevoluteDH(d, a, alpha, offset, qlim): a Standard-DH revolute link; qlim is
\* <<lowest, highest>> in degrees
RevoluteDH(d, a, alpha, offset, qlim) ==
    [conv |-> "DH", d |-> d, a |-> a, alpha |-> alpha, offset |-> offset,
     qlim |-> qlim]

\* RevoluteMDH(a, alpha, d): a Modified-DH revolute link
RevoluteMDH(a, alpha, d) ==
    [conv |-> "MDH", d |-> d, a |-> a, alpha |-> alpha, offset |-> 0,
     qlim |-> NoLimit]

\* mutant: d4 = 0.647 m, the forearm length of debug_dh's test chain
ComauLinks_d647(a1) ==
    << RevoluteDH(4500, a1,   90,  0, NoLimit),
       RevoluteDH(0,    5900, 0,   90, NoLimit),
       RevoluteDH(0,    1300, 90,  0, NoLimit),
       RevoluteDH(6470, 0,    -90, 0, NoLimit),
       RevoluteDH(0,    0,    90,  0, NoLimit),
       RevoluteDH(950,  0,    0,   0, NoLimit) >>

\* the six links find_correct_a1 builds around each candidate a1: the d, a,
\* alpha and offset of create_comau_robot, without joint limits
ComauLinks(a1) ==
    << RevoluteDH(4500, a1,   90,  0, NoLimit),
       RevoluteDH(0,    5900, 0,   90, NoLimit),
       RevoluteDH(0,    1300, 90,  0, NoLimit),
       RevoluteDH(6740, 0,    -90, 0, NoLimit),
       RevoluteDH(0,    0,    90,  0, NoLimit),
       RevoluteDH(950,  0,    0,   0, NoLimit) >>

\* a1 = 0.101 m of create_comau_robot, in tenths of a millimetre
ComauA1 == 1010

\* mutant: the uncalibrated shoulder offset a1 = 0.15 m of the earlier model
create_comau_robot_a150 == ComauLinks(1500)

\* links of create_comau_robot: d, a, alpha, offset, qlim of each joint
create_comau_robot ==
    << RevoluteDH(4500, ComauA1, 90,  0,  <<-170, 170>>),
       RevoluteDH(0,    5900,    0,   90, <<-85, 155>>),
       RevoluteDH(0,    1300,    90,  0,  <<-170, 158>>),
       RevoluteDH(6740, 0,       -90, 0,  <<-270, 270>>),
       RevoluteDH(0,    0,       90,  0,  <<-130, 130>>),
       RevoluteDH(950,  0,       0,   0,  <<-270, 270>>) >>

\* diagnose_frames Test 1: the paper's parameters, a1 = 0, no offsets
DiagLinks1 ==
    << RevoluteDH(4500, 0,    90,  0, NoLimit),
       RevoluteDH(0,    5900, 0,   0, NoLimit),
       RevoluteDH(0,    1300, 90,  0, NoLimit),
       RevoluteDH(6740, 0,    -90, 0, NoLimit),
       RevoluteDH(0,    0,    90,  0, NoLimit),
       RevoluteDH(950,  0,    0,   0, NoLimit) >>

\* diagnose_frames Test 4: the same parameters as Modified-DH links
DiagLinks4 ==
    << RevoluteMDH(0,    90,  4500),
       RevoluteMDH(5900, 0,   0),
       RevoluteMDH(1300, 90,  0),
       RevoluteMDH(0,    -90, 6740),
       RevoluteMDH(0,    90,  0),
       RevoluteMDH(0,    0,   950) >>

\* diagnose_frames Test 7: the parameters of Test 1 with an offset on joint 2
OffsetLinks(offset) ==
    << RevoluteDH(4500, 0,    90,  0,      NoLimit),
       RevoluteDH(0,    5900, 0,   offset, NoLimit),
       RevoluteDH(0,    1300, 90,  0,      NoLimit),
       RevoluteDH(6740, 0,    -90, 0,      NoLimit),
       RevoluteDH(0,    0,    90,  0,      NoLimit),
       RevoluteDH(950,  0,    0,   0,      NoLimit) >>

\* debug_dh links2: a1 = 0.15, d4 = 0.647, no offsets
DebugLinks2 ==
    << RevoluteDH(4500, 1500, 90,  0, NoLimit),
       RevoluteDH(0,    5900, 0,   0, NoLimit),
       RevoluteDH(0,    1300, 90,  0, NoLimit),
       RevoluteDH(6470, 0,    -90, 0, NoLimit),
       RevoluteDH(0,    0,    90,  0, NoLimit),
       RevoluteDH(950,  0,    0,   0, NoLimit) >>

ChainNames == {"comau", "diag1", "diag4_mdh"}

Links(name) ==
    CASE name = "comau" -> create_comau_robot
      [] name = "diag1" -> DiagLinks1
      [] name = "diag4_mdh" -> DiagLinks4

-----------------------------------------------------------------------------
(* Frames: the three upper rows of a 4x4 homogeneous transform; the fourth *)
(* row is always [0 0 0 1].  Entries 1..3 of a row are the rotation,       *)
(* scaled by Scale; entry 4 is the translation in tenths of a millimetre.  *)

Identity == << <<Scale, 0, 0, 0>>, <<0, Scale, 0, 0>>, <<0, 0, Scale, 0>> >>

\* row i of X * Y
MatRow(X, Y, i) ==
    << Rnd(X[i][1] * Y[1][1] + X[i][2] * Y[2][1] + X[i][3] * Y[3][1]),
       Rnd(X[i][1] * Y[1][2] + X[i][2] * Y[2][2] + X[i][3] * Y[3][2]),
       Rnd(X[i][1] * Y[1][3] + X[i][2] * Y[2][3] + X[i][3] * Y[3][3]),
       Rnd(X[i][1] * Y[1][4] + X[i][2] * Y[2][4] + X[i][3] * Y[3][4]) + X[i][4] >>

\* mutant: the factors multiplied in the opposite order
MatMul_swapped(X, Y) == << MatRow(Y, X, 1), MatRow(Y, X, 2), MatRow(Y, X, 3) >>

\* X * Y for homogeneous transforms
MatMul(X, Y) == << MatRow(X, Y, 1), MatRow(X, Y, 2), MatRow(X, Y, 3) >>

\* Link.A(q) of a Modified-DH link: Rx(alpha) Tx(a) Rz(theta) Tz(d) in closed form
ModifiedA(L, qi) ==
    LET th == qi + L.offset
        ct == Cos(th)
        st == Sin(th)
        ca == Cos(L.alpha)
        sa == Sin(L.alpha)
    IN  << <<ct,           -st,          0,   L.a>>,
           <<Rnd(st * ca), Rnd(ct * ca), -sa, -Rnd(sa * L.d)>>,
           <<Rnd(st * sa), Rnd(ct * sa), ca,  Rnd(ca * L.d)>> >>

\* mutant: a Standard-DH link transformed in the Modified-DH order
StandardA_modified(L, qi) == ModifiedA(L, qi)

\* Link.A(q) of a Standard-DH link: Rz(theta) Tz(d) Tx(a) Rx(alpha) in closed form
StandardA(L, qi) ==
    LET th == qi + L.offset
        ct == Cos(th)
        st == Sin(th)
        ca == Cos(L.alpha)
        sa == Sin(L.alpha)
    IN  << <<ct, Rnd(-(st * ca)), Rnd(st * sa),    Rnd(L.a * ct)>>,
           <<st, Rnd(ct * ca),    Rnd(-(ct * sa)), Rnd(L.a * st)>>,
           <<0,  sa,              ca,              L.d>> >>

LinkA(L, qi) == IF L.conv = "DH" THEN StandardA(L, qi) ELSE ModifiedA(L, qi)

\* the pose after the first n links: base * A_1(q_1) * ... * A_n(q_n)
RECURSIVE Pose(_, _, _)
Pose(links, qv, n) ==
    IF n = 0 THEN Identity
    ELSE MatMul(Pose(links, qv, n - 1), LinkA(links[n], qv[n]))

\* robot.fkine(q): the end-effector pose
fkine(links, qv) == Pose(links, qv, Len(links))

\* the loop of fkine_all: Tall starts as the base frame, and each link
\* appends Tj * A_i(q_i) to it
RECURSIVE FkAllLoop(_, _, _)
FkAllLoop(links, qv, n) ==
    IF n = 0 THEN <<Identity>>
    ELSE LET Tall == FkAllLoop(links, qv, n - 1)
         IN  Append(Tall, MatMul(Tall[Len(Tall)], LinkA(links[n], qv[n])))

\* mutant: frames {1}..{n} only, without the base frame
fkine_all_nobase(links, qv) == Tail(FkAllLoop(links, qv, Len(links)))

\* robot.fkine_all(q): the base frame followed by the pose after each link
fkine_all(links, qv) == FkAllLoop(links, qv, Len(links))

\* T.t: the translation of a frame
Trans(T) == <<T[1][4], T[2][4], T[3][4]>>

\* np.linalg.norm(p - t) squared, in squared tenths of a millimetre; the code
\* only ever compares norms, and the squares compare the same way
Err2(p, t) ==
    (p[1] - t[1]) * (p[1] - t[1]) + (p[2] - t[2]) * (p[2] - t[2])
        + (p[3] - t[3]) * (p[3] - t[3])

-----------------------------------------------------------------------------
(* Forward-kinematics evaluations *)

\* joint angles range over the multiples of 90 degrees up to MaxQuarter * 90
MaxQuarter == 3

QuarterAngles == {90 * k : k \in 0..MaxQuarter}

Zeros == <<0, 0, 0, 0, 0, 0>>

\* the joint vectors each chain is evaluated at: the request handler takes any
\* six angles for the COMAU chain, validate_model adds its q_s and q_n, and
\* diagnose_frames evaluates its chains at the literal vectors of Tests 1-6
JointVectors(name) ==
    CASE name = "comau" ->
            [1..6 -> QuarterAngles]
                \cup {<<0, 45, -60, 0, 60, 0>>, <<0, -45, 0, 0, 60, 0>>}
      [] name = "diag1" ->
            {Zeros, <<0, -90, 0, 0, 0, 0>>, <<0, 90, 0, 0, 0, 0>>}
      [] name = "diag4_mdh" -> {Zeros}

\* validate_model is not running
ValidateIdle ==
    /\ test_cases = <<>> /\ case_i = 0 /\ all_passed = TRUE /\ rows = <<>>
    /\ vl_ret = <<>> /\ vl_pc = "idle"

\* the web application is not running
AppIdle ==
    /\ robot = <<>> /\ created = 0 /\ with_base = TRUE /\ data = <<>>
    /\ exc = "" /\ response = <<>> /\ first_call = <<>>

\* the search scripts are not running
SearchIdle ==
    /\ prog = "none" /\ target_i = 0 /\ phase = 0 /\ idx = <<>>
    /\ best_error = 0 /\ best_config = <<>> /\ base_q = <<>>
    /\ matches = 0 /\ first_match = <<>> /\ evals = 0 /\ reports = <<>>
    /\ warned = FALSE /\ ret = <<>> /\ pc = "idle"

FkInit ==
    /\ chain \in ChainNames
    /\ q \in JointVectors(chain)
    /\ frames = <<>>
    /\ pose = <<>>
    /\ fk_pc = "ready"
    /\ SearchIdle /\ ValidateIdle /\ AppIdle

\* T = robot.fkine(q)
Fkine ==
    /\ fk_pc = "ready"
    /\ pose' = fkine(Links(chain), q)
    /\ fk_pc' = "fkine_done"
    /\ UNCHANGED <<chain, q, frames, srVars, vlVars, apVars>>

\* all_transforms = robot.fkine_all(q), called on the COMAU chain only
FkineAll ==
    /\ fk_pc = "ready"
    /\ chain = "comau"
    /\ frames' = fkine_all(Links(chain), q)
    /\ fk_pc' = "fkine_all_done"
    /\ UNCHANGED <<chain, q, pose, srVars, vlVars, apVars>>

FkNext == Fkine \/ FkineAll

SpecFK == FkInit /\ [][FkNext]_vars

-----------------------------------------------------------------------------
(* Claims about the forward kinematics, checked under SpecFK *)

\* 1 mm, in tenths of a millimetre
OneMm == 10

\* the paper's positions for q_z and q_r
PosZero == <<8700, 0, 11700>>
PosRot90 == <<0, 8700, 11700>>

\* the end-effector position of whichever evaluation has finished
EndPos == IF fk_pc = "fkine_done" THEN Trans(pose) ELSE Trans(frames[Len(frames)])

FkDone == fk_pc \in {"fkine_done", "fkine_all_done"}

\* C1: the COMAU chain evaluated at q = [0,0,0,0,0,0] puts the end effector
\* at [0.87, 0.0, 1.17] m, within 1 mm.
C1_ZeroConfiguration ==
    (FkDone /\ chain = "comau" /\ q = Zeros)
        => Err2(EndPos, PosZero) < OneMm * OneMm

C1_Witness ==
    /\ fk_pc = "fkine_done" /\ chain = "comau" /\ q = Zeros
    /\ Trans(pose) = PosZero

\* p rotated about the base Z axis by deg degrees
RotZ(p, deg) ==
    << Rnd(Cos(deg) * p[1] - Sin(deg) * p[2]),
       Rnd(Sin(deg) * p[1] + Cos(deg) * p[2]),
       p[3] >>

\* C2: turning joint 1 alone by theta turns the end-effector position about
\* the base Z axis by theta and keeps its z; the COMAU chain at
\* q = [90,0,0,0,0,0] degrees is at [0.0, 0.87, 1.17] m within 1 mm.
C2_BaseRotation ==
    (FkDone /\ Links(chain)[1].conv = "DH")
        => LET p0 == Trans(fkine(Links(chain), [q EXCEPT ![1] = 0]))
           IN  /\ EndPos = RotZ(p0, q[1])
               /\ EndPos[3] = p0[3]
               /\ (chain = "comau" /\ q = <<90, 0, 0, 0, 0, 0>>)
                    => Err2(EndPos, PosRot90) < OneMm * OneMm

C2_Witness ==
    /\ fk_pc = "fkine_done" /\ chain = "comau" /\ q = <<90, 0, 0, 0, 0, 0>>
    /\ Trans(pose) = PosRot90
    /\ Trans(fkine(Links(chain), Zeros)) = PosZero

\* the four elementary transforms of the DH convention
Rz(th) == << <<Cos(th), -Sin(th), 0, 0>>, <<Sin(th), Cos(th), 0, 0>>, <<0, 0, Scale, 0>> >>
Tz(d) == << <<Scale, 0, 0, 0>>, <<0, Scale, 0, 0>>, <<0, 0, Scale, d>> >>
Tx(a) == << <<Scale, 0, 0, a>>, <<0, Scale, 0, 0>>, <<0, 0, Scale, 0>> >>
Rx(al) == << <<Scale, 0, 0, 0>>, <<0, Cos(al), -Sin(al), 0>>, <<0, Sin(al), Cos(al), 0>> >>

\* X * Y, written out independently of the evaluation's own product:
\* entry (i, j) is row i of X's rotation against column j of Y, and the
\* translation column adds X's own translation
Dot(X, i, Y, j) == Rnd(X[i][1] * Y[1][j] + X[i][2] * Y[2][j] + X[i][3] * Y[3][j])
ProdRow(X, Y, i) == << Dot(X, i, Y, 1), Dot(X, i, Y, 2), Dot(X, i, Y, 3), Dot(X, i, Y, 4) + X[i][4] >>
Prod(X, Y) == << ProdRow(X, Y, 1), ProdRow(X, Y, 2), ProdRow(X, Y, 3) >>

\* Rz(q + offset) * Tz(d) * Tx(a) * Rx(alpha)
StdLocal(L, qi) == Prod(Prod(Prod(Rz(qi + L.offset), Tz(L.d)), Tx(L.a)), Rx(L.alpha))

SameFrame(X, Y) == \A i \in 1..3 : \A j \in 1..4 : X[i][j] = Y[i][j]

\* C3: frame 0 is the identity and frame i is frame i-1 times the link's
\* Standard-DH transform Rz(q+offset) Tz(d) Tx(a) Rx(alpha), link after link
\* in link order; no evaluated chain mixes Standard-DH and Modified-DH links.
C3_StandardDHRecurrence ==
    LET links == Links(chain)
        N == Len(links)
    IN  /\ \A i, j \in 1..N : links[i].conv = links[j].conv
        /\ (fk_pc = "fkine_all_done" /\ links[1].conv = "DH")
             => /\ SameFrame(frames[1], Identity)
                /\ \A i \in 1..N :
                     SameFrame(frames[i + 1], Prod(frames[i], StdLocal(links[i], q[i])))
        /\ (fk_pc = "fkine_done" /\ links[1].conv = "DH")
             => LET fs == fkine_all(links, q)
                IN  /\ SameFrame(pose, Prod(fs[N], StdLocal(links[N], q[N])))
                    /\ \A i \in 1..(N - 1) :
                         SameFrame(fs[i + 1], Prod(fs[i], StdLocal(links[i], q[i])))

C3_Witness ==
    /\ fk_pc = "fkine_all_done" /\ chain = "comau" /\ q = <<90, 90, 0, 90, 0, 0>>
    /\ \A i \in 1..6 : ~SameFrame(frames[i + 1], frames[i])

-----------------------------------------------------------------------------
(* The calibration searches: find_qn_configuration (two phases),           *)
(* find_paper_qn, find_qs_configuration, find_all_missing_configs (two     *)
(* targets), find_correct_a1, the joint-2 offset search of                 *)
(* test_different_conventions (Test 7) and the q2/q3 search of             *)
(* test_dh_parameters (Test 4).  One step is one iteration of the          *)
(* innermost loop.                                                         *)

\* float('inf'): above every squared error the model computes
Inf == 2147483647

\* range(start, stop, step) of Python as a sequence; every step the scripts
\* write is a non-zero literal
\* mutant: the stop value taken as the last value wanted, so that the range
\* ends one step short of it
PyRange_short(start, stop, step) ==
    LET n == IF step > 0 /\ stop - 1 > start
                THEN (stop - 1 - start + step - 1) \div step
             ELSE 0
    IN  [i \in 1..n |-> start + (i - 1) * step]

PyRange(start, stop, step) ==
    LET n == IF step > 0 /\ stop > start
                THEN (stop - start + step - 1) \div step
             ELSE IF step < 0 /\ stop < start
                THEN (start - stop - step - 1) \div (-step)
             ELSE 0
    IN  [i \in 1..n |-> start + (i - 1) * step]

Programs ==
    {"find_qn_configuration", "find_paper_qn", "find_qs_configuration",
     "find_all_missing_configs", "find_correct_a1",
     "test_different_conventions", "test_dh_parameters"}

\* the searches that print their best and return nothing
PrintsOnly ==
    {"find_all_missing_configs", "test_different_conventions", "test_dh_parameters"}

\* the searches that run on the robot of create_comau_robot
OnComauRobot ==
    {"find_qn_configuration", "find_paper_qn", "find_qs_configuration",
     "find_all_missing_configs"}

\* the nested for loops of each script and phase, outermost first
Dims(p, ph) ==
    CASE p = "find_qn_configuration" /\ ph = 1 ->
            << <<45>>, PyRange(-90, 91, 15), PyRange(-90, 91, 15),
               <<0, 45, 90>>, <<0, 45>> >>
      [] p = "find_qn_configuration" /\ ph = 2 ->
            << PyRange(-10, 11, 2), PyRange(-10, 11, 2), PyRange(-10, 11, 2) >>
      [] p = "find_paper_qn" ->
            << PyRange(0, 91, 15), PyRange(0, 91, 15), PyRange(-90, 1, 15),
               PyRange(0, 91, 30), PyRange(0, 91, 30), PyRange(0, 91, 45) >>
      [] p = "find_qs_configuration" ->
            << PyRange(-90, 181, 15), PyRange(-90, 91, 15) >>
      [] p = "find_all_missing_configs" ->
            << PyRange(0, 91, 15), PyRange(-90, 181, 15), PyRange(-90, 91, 15),
               PyRange(0, 91, 30), PyRange(0, 91, 30), <<0>> >>
      [] p = "find_correct_a1" ->
            << PyRange(0, 201, 1) >>
      [] p = "test_different_conventions" ->
            << PyRange(-180, 181, 15) >>
      [] p = "test_dh_parameters" ->
            << <<-90, -45, 0, 45, 90>>, <<-90, -45, 0, 45, 90>> >>

\* the targets of each script, in the order it searches them
Targets(p) ==
    CASE p = "find_qn_configuration" -> << <<6150, 6150, 5010>> >>
      [] p = "find_paper_qn" -> << <<11900, 0, 5010>> >>
      [] p = "find_qs_configuration" -> << <<4500, 0, 8700>> >>
      [] p = "find_all_missing_configs" -> << <<4500, 0, 8700>>, <<11900, 0, 5010>> >>
      [] p = "find_correct_a1" -> << <<8700, 0, 11700>> >>
      [] p = "test_different_conventions" -> << <<8700, 0, 11700>> >>
      [] p = "test_dh_parameters" -> << <<14650, 0, 5800>> >>

\* the error below which a candidate is printed as a match (0: none printed)
MatchTol(p, ph) ==
    CASE p = "find_qn_configuration" /\ ph = 1 -> 1000
      [] p = "find_correct_a1" -> 0
      [] p = "test_different_conventions" -> 0
      [] p = "test_dh_parameters" -> 1000
      [] OTHER -> 500

\* the loop variables at loop indices ix
Values(dims, ix) == [d \in 1..Len(dims) |-> dims[d][ix[d]]]

\* mutant: the fine-tuning deltas are added to the best so far instead of
\* base_q
Config_recentred(p, ph, v, base) ==
    CASE p = "find_qn_configuration" /\ ph = 1 -> <<v[1], v[2], v[3], v[4], v[5], 0>>
      [] p = "find_qn_configuration" /\ ph = 2 ->
            <<best_config[1][1], best_config[1][2] + v[1], best_config[1][3] + v[2],
              best_config[1][4], best_config[1][5] + v[3], 0>>
      [] p = "find_paper_qn" -> <<v[1], v[2], v[3], v[4], v[5], v[6]>>
      [] p = "find_qs_configuration" -> <<0, v[1], v[2], 0, 0, 0>>
      [] p = "find_all_missing_configs" -> <<v[1], v[2], v[3], v[4], v[5], v[6]>>
      [] p = "find_correct_a1" -> <<v[1] * 10>>
      [] p = "test_different_conventions" -> <<v[1]>>
      [] p = "test_dh_parameters" -> <<v[1], v[2]>>

\* the assignment a candidate is recorded as: the six angles in degrees, or
\* a1 (a1_mm / 1000.0, here in tenths of a millimetre)
Config(p, ph, v, base) ==
    CASE p = "find_qn_configuration" /\ ph = 1 -> <<v[1], v[2], v[3], v[4], v[5], 0>>
      [] p = "find_qn_configuration" /\ ph = 2 ->
            <<base[1], base[2] + v[1], base[3] + v[2], base[4], base[5] + v[3], 0>>
      [] p = "find_paper_qn" -> <<v[1], v[2], v[3], v[4], v[5], v[6]>>
      [] p = "find_qs_configuration" -> <<0, v[1], v[2], 0, 0, 0>>
      [] p = "find_all_missing_configs" -> <<v[1], v[2], v[3], v[4], v[5], v[6]>>
      [] p = "find_correct_a1" -> <<v[1] * 10>>
      [] p = "test_different_conventions" -> <<v[1]>>
      [] p = "test_dh_parameters" -> <<v[1], v[2]>>

\* the chain a candidate is evaluated on
SearchLinks(p, c) ==
    CASE p = "find_correct_a1" -> ComauLinks(c[1])
      [] p = "test_different_conventions" -> OffsetLinks(c[1])
      [] p = "test_dh_parameters" -> DebugLinks2
      [] OTHER -> create_comau_robot

\* an angle moved to the nearest end of a joint's limits
ClampTo(x, lim) == IF x < lim[1] THEN lim[1] ELSE IF x > lim[2] THEN lim[2] ELSE x

Clamped(links, c) ==
    << ClampTo(c[1], links[1].qlim), ClampTo(c[2], links[2].qlim),
       ClampTo(c[3], links[3].qlim), ClampTo(c[4], links[4].qlim),
       ClampTo(c[5], links[5].qlim), ClampTo(c[6], links[6].qlim) >>

\* mutant: the joint vector is clamped to the joint limits before evaluation
SearchQ_clamped(p, c) ==
    CASE p = "find_correct_a1" -> Zeros
      [] p = "test_different_conventions" -> Zeros
      [] p = "test_dh_parameters" -> <<0, c[1], c[2], 0, 0, 0>>
      [] OTHER -> Clamped(create_comau_robot, c)

\* the joint vector a candidate is evaluated at
SearchQ(p, c) ==
    CASE p = "find_correct_a1" -> Zeros
      [] p = "test_different_conventions" -> Zeros
      [] p = "test_dh_parameters" -> <<0, c[1], c[2], 0, 0, 0>>
      [] OTHER -> c

\* pos = robot.fkine(q).t
Position(p, c) == Trans(fkine(SearchLinks(p, c), SearchQ(p, c)))

\* the loop indices of the first iteration, <<>> if some loop has nothing to run
FirstIdx(dims) ==
    IF \E d \in 1..Len(dims) : Len(dims[d]) = 0 THEN <<>>
    ELSE [d \in 1..Len(dims) |-> 1]

\* the loop indices of the next iteration: the loop at depth d advances, and
\* when it is exhausted it restarts and the enclosing loop advances; <<>> when
\* the outermost loop is exhausted
RECURSIVE NextIdx(_, _, _)
NextIdx(ix, dims, d) ==
    IF d = 0 THEN <<>>
    ELSE IF ix[d] < Len(dims[d]) THEN [ix EXCEPT ![d] = ix[d] + 1]
    ELSE NextIdx([ix EXCEPT ![d] = 1], dims, d - 1)

\* best_error = float('inf'); best_config = None (find_correct_a1: best_a1 = 0
\* and best_pos not yet bound; Test 7 of diagnose_frames: best_offset = 0)
BestInit(p) ==
    IF p \in {"find_correct_a1", "test_different_conventions"} THEN << <<0>>, <<>> >>
    ELSE <<>>

\* mutant: once a match has been printed the best is no longer replaced
Improves_until_match(error, best) == error < best /\ matches = 0

\* mutant: a candidate of equal error replaces the best
Improves_or_equal(error, best) == error <= best

\* mutant: only a candidate within the match tolerance is kept
Improves_within_tol(error, best) ==
    error < best /\ error < MatchTol(prog, phase) * MatchTol(prog, phase)

\* mutant: the comparison the wrong way round
Improves_reversed(error, best) == error > best

\* if error < best_error (grid search)
Improves(error, best) == error < best

\* mutant: every fine-tuning candidate replaces the best
RefineImproves_always(error, best) == TRUE

\* if error < best_error (fine-tuning)
RefineImproves(error, best) == error < best

FkIdle ==
    /\ chain = "comau" /\ q = Zeros /\ frames = <<>> /\ pose = <<>>
    /\ fk_pc = "idle"

SrInit ==
    /\ prog \in Programs
    /\ target_i = 1
    /\ phase = 1
    /\ idx = FirstIdx(Dims(prog, 1))
    /\ best_error = Inf
    /\ best_config = BestInit(prog)
    /\ base_q = <<>>
    /\ matches = 0
    /\ first_match = <<>>
    /\ evals = 0
    /\ reports = <<>>
    /\ warned = FALSE
    /\ ret = <<>>
    /\ pc = "loop"
    /\ FkIdle /\ ValidateIdle /\ AppIdle

\* one iteration of the innermost loop: evaluate the candidate, print it if it
\* is a match, keep it if it improves on the best
LoopBody(ph) ==
    LET dims == Dims(prog, phase)
        c == Config(prog, phase, Values(dims, idx), base_q)
        pos == Position(prog, c)
        error == Err2(pos, Targets(prog)[target_i])
        tol == MatchTol(prog, phase)
    IN  /\ evals' = evals + 1
        /\ IF error < tol * tol
           THEN /\ matches' = matches + 1
                /\ first_match' = IF first_match = <<>> THEN c ELSE first_match
           ELSE UNCHANGED <<matches, first_match>>
        /\ IF (IF ph = 2 THEN RefineImproves(error, best_error)
                        ELSE Improves(error, best_error))
           THEN /\ best_error' = error
                /\ best_config' = <<c, pos>>
           ELSE UNCHANGED <<best_error, best_config>>
        /\ idx' = NextIdx(idx, dims, Len(dims))
        /\ UNCHANGED <<prog, target_i, phase, base_q, reports, warned, ret, pc, fkVars, vlVars, apVars>>

\* grid search, one candidate
CoarseStep ==
    /\ pc = "loop" /\ phase = 1 /\ idx # <<>>
    /\ LoopBody(1)

\* fine-tuning, one candidate around base_q
RefineStep ==
    /\ pc = "loop" /\ phase = 2 /\ idx # <<>>
    /\ LoopBody(2)

\* find_qn_configuration between its phases: print the phase 1 best and take
\* base_q = best_config[0]
StartRefine ==
    /\ pc = "loop" /\ phase = 1 /\ idx = <<>>
    /\ prog = "find_qn_configuration"
    /\ IF best_config = <<>>
       THEN /\ pc' = "raised"
            /\ UNCHANGED <<phase, idx, base_q>>
       ELSE /\ base_q' = best_config[1]
            /\ phase' = 2
            /\ idx' = FirstIdx(Dims(prog, 2))
            /\ pc' = pc
    /\ UNCHANGED <<prog, target_i, best_error, best_config, matches, first_match,
                   evals, reports, warned, ret, fkVars, vlVars, apVars>>

\* the loops are over and the script has nothing left to search
LastLoopOver ==
    /\ pc = "loop" /\ idx = <<>>
    /\ prog = "find_qn_configuration" => phase = 2
    /\ target_i = Len(Targets(prog))

\* reading the best for the report fails when no candidate was ever kept
NothingKept == best_config = <<>> \/ best_config[2] = <<>>

\* mutant: the next target starts from the best of the target before
NextTarget_keeps_best ==
    /\ pc = "loop" /\ idx = <<>>
    /\ target_i < Len(Targets(prog))
    /\ reports' = Append(reports, <<best_config[1], best_config[2], best_error>>)
    /\ target_i' = target_i + 1
    /\ idx' = FirstIdx(Dims(prog, 1))
    /\ UNCHANGED <<prog, phase, base_q, evals, warned, ret, pc, best_error, best_config,
                   matches, first_match, fkVars, vlVars, apVars>>

\* find_all_missing_configs, end of the body of the loop over targets: print
\* the best of this target; the next target starts from a fresh best
NextTarget ==
    /\ pc = "loop" /\ idx = <<>>
    /\ target_i < Len(Targets(prog))
    /\ IF NothingKept
       THEN /\ pc' = "raised"
            /\ UNCHANGED <<target_i, idx, best_error, best_config, matches,
                           first_match, reports>>
       ELSE /\ reports' = Append(reports, <<best_config[1], best_config[2], best_error>>)
            /\ target_i' = target_i + 1
            /\ best_error' = Inf
            /\ best_config' = BestInit(prog)
            /\ matches' = 0
            /\ first_match' = <<>>
            /\ idx' = FirstIdx(Dims(prog, 1))
            /\ pc' = pc
    /\ UNCHANGED <<prog, phase, base_q, evals, warned, ret, fkVars, vlVars, apVars>>

\* print the best match (and the 30 mm warning of find_qn_configuration) and
\* return best_config[0], best_a1, or nothing from the searches that only print
Finish ==
    /\ LastLoopOver
    /\ IF NothingKept
       THEN /\ pc' = "raised"
            /\ UNCHANGED <<reports, warned, ret>>
       ELSE /\ reports' = Append(reports, <<best_config[1], best_config[2], best_error>>)
            /\ warned' = (prog = "find_qn_configuration" /\ best_error > 300 * 300)
            /\ ret' = IF prog \in PrintsOnly THEN <<>> ELSE best_config[1]
            /\ pc' = "done"
    /\ UNCHANGED <<prog, target_i, phase, idx, best_error, best_config, base_q,
                   matches, first_match, evals, fkVars, vlVars, apVars>>

SrNext == CoarseStep \/ RefineStep \/ StartRefine \/ NextTarget \/ Finish

SpecSearch == SrInit /\ [][SrNext]_vars

-----------------------------------------------------------------------------
(* Claims about the searches, checked under SpecSearch *)

\* the number of candidates of a loop nest
RECURSIVE Count(_, _)
Count(dims, d) == IF d = 0 THEN 1 ELSE Len(dims[d]) * Count(dims, d - 1)

Total(p, ph) == Count(Dims(p, ph), Len(Dims(p, ph)))

\* the loop indices of iteration k (from 0) of a loop nest: the nesting order
\* is the lexicographic order, the innermost loop running fastest
RECURSIVE KthIdx(_, _, _)
KthIdx(dims, d, k) ==
    IF d = 0 THEN <<>>
    ELSE Append(KthIdx(dims, d - 1, k \div Len(dims[d])), (k % Len(dims[d])) + 1)

\* the k-th candidate of a phase, and its error against target t
CandAt(p, ph, k, base) ==
    LET dims == Dims(p, ph)
    IN  Config(p, ph, Values(dims, KthIdx(dims, Len(dims), k)), base)

ErrAt(p, ph, k, base, t) == Err2(Position(p, CandAt(p, ph, k, base)), t)

Target == Targets(prog)[target_i]

\* a loop nest has just run to its end
LoopEnded == pc = "loop" /\ idx = <<>>

\* something was kept as the best
Kept == best_config # <<>> /\ best_config[2] # <<>>

IsCandidate(c, ph) == \E k \in 0..(Total(prog, ph) - 1) : CandAt(prog, ph, k, base_q) = c

\* C6: when a search has run its grid (and its refinement), the best it holds
\* and goes on to report and return is a candidate whose error is the minimum
\* over every candidate of the coarse grid and of the refinement grid, not the
\* first candidate that was printed as a match; a step that prints a match
\* replaces the best only by a strictly better candidate.
C6_State ==
    /\ LoopEnded
        => /\ Kept
           /\ best_config[2] = Position(prog, best_config[1])
           /\ best_error = Err2(best_config[2], Target)
           /\ \A k \in 0..(Total(prog, 1) - 1) :
                best_error <= ErrAt(prog, 1, k, <<>>, Target)
           /\ phase = 2
                => \A k \in 0..(Total(prog, 2) - 1) :
                     best_error <= ErrAt(prog, 2, k, base_q, Target)
           /\ IsCandidate(best_config[1], 1) \/ (phase = 2 /\ IsCandidate(best_config[1], 2))
           /\ (first_match # <<>> /\ Err2(Position(prog, first_match), Target) > best_error)
                => best_config[1] # first_match
    /\ pc = "done"
        => /\ reports[Len(reports)] = <<best_config[1], best_config[2], best_error>>
           /\ prog \notin PrintsOnly => ret = best_config[1]

C6_Step == (matches' > matches /\ best_config' # best_config) => best_error' < best_error

C6_GlobalMinimum == []C6_State /\ [][C6_Step]_vars

\* the grid search of find_qn_configuration is over: four matches were
\* printed, the first of them is not the best, and the best is the minimum
C6_Witness ==
    /\ LoopEnded /\ prog = "find_qn_configuration" /\ phase = 1
    /\ matches > 1
    /\ first_match # best_config[1]
    /\ Err2(Position(prog, first_match), Target) > best_error

\* the place of the best in the enumeration of phase ph
RankOfBest(ph) ==
    CHOOSE k \in 0..(Total(prog, ph) - 1) : CandAt(prog, ph, k, base_q) = best_config[1]

\* C7: among the candidates of minimal error the search keeps the one that
\* the loop nest enumerates first (outermost loop slowest): every candidate
\* enumerated before the best has a strictly larger error, so a later
\* candidate of equal error never replaced it.
C7_FirstMinimumWins ==
    LoopEnded
        => /\ Kept
           /\ IF phase = 1 \/ best_config[1] = base_q
              THEN \A k \in 0..(RankOfBest(1) - 1) :
                     ErrAt(prog, 1, k, <<>>, Target) > best_error
              ELSE /\ \A k \in 0..(Total(prog, 1) - 1) :
                        ErrAt(prog, 1, k, <<>>, Target) > best_error
                   /\ \A k \in 0..(RankOfBest(2) - 1) :
                        ErrAt(prog, 2, k, base_q, Target) > best_error

\* a grid search is over and a candidate enumerated after the best has the
\* same, minimal, error
C7_Witness ==
    /\ LoopEnded /\ phase = 1 /\ Kept
    /\ \E k \in (RankOfBest(1) + 1)..(Total(prog, 1) - 1) :
         ErrAt(prog, 1, k, <<>>, Target) = best_error

\* the error of base_q, the best of the grid search
CoarseError == Err2(Position(prog, base_q), Target)

\* C8: in the fine-tuning phase the best is replaced only by a candidate of
\* strictly smaller error: while the best is still base_q its error and
\* position are those of the grid search, and once it is another candidate its
\* error is strictly below that of the grid search; what is returned is that
\* best.
C8_StrictRefinement ==
    /\ phase = 2
        => /\ Kept
           /\ best_error = Err2(Position(prog, best_config[1]), Target)
           /\ best_config[1] = base_q
                => /\ best_error = CoarseError
                   /\ best_config[2] = Position(prog, base_q)
           /\ best_config[1] # base_q
                => /\ best_error < CoarseError
                   /\ IsCandidate(best_config[1], 2)
    /\ (phase = 2 /\ pc = "done")
        => /\ ret = best_config[1]
           /\ reports[Len(reports)] = <<best_config[1], best_config[2], best_error>>

\* ten fine-tuning candidates have been evaluated, none of them strictly
\* better, and the best is still that of the grid search
C8_Witness ==
    /\ phase = 2 /\ pc = "loop"
    /\ evals = Total(prog, 1) + 10
    /\ best_config[1] = base_q
    /\ best_error = CoarseError
    /\ \A k \in 0..9 : ErrAt(prog, 2, k, base_q, Target) >= CoarseError

\* the fine-tuning has replaced the best by a strictly better candidate
C8_Replaced ==
    /\ phase = 2 /\ pc = "done"
    /\ best_config[1] # base_q /\ best_error < CoarseError

\* C10: a search never raises for lack of a good enough result: whatever the
\* target and the grid, when its loops are over it goes on to report and
\* return, and it ends having returned the best assignment found and reported
\* its residual error, also when no candidate was within the match tolerance.
C10_NeverRaises ==
    /\ pc # "raised"
    /\ LoopEnded => ENABLED (StartRefine \/ NextTarget \/ Finish)
    /\ pc = "done"
        => /\ Len(reports) = Len(Targets(prog))
           /\ \A r \in 1..Len(reports) :
                /\ reports[r][3] = Err2(Position(prog, reports[r][1]), Targets(prog)[r])
                /\ reports[r][2] = Position(prog, reports[r][1])
                /\ reports[r][3] < Inf
           /\ prog \notin PrintsOnly => ret = reports[Len(reports)][1]

\* a search has returned although no candidate was within the match tolerance
C10_Witness ==
    /\ pc = "done" /\ matches = 0 /\ MatchTol(prog, phase) > 0
    /\ best_error >= MatchTol(prog, phase) * MatchTol(prog, phase)
    /\ ret = best_config[1]

\* indices of the joints whose angle lies outside the link's qlim
Violations(links, c) ==
    { k \in 1..Len(links) : c[k] < links[k].qlim[1] \/ c[k] > links[k].qlim[2] }

BestAssignment == best_config[1]

BestPosition == best_config[2]

OutsideLimits ==
    /\ prog \in OnComauRobot
    /\ Kept
    /\ Violations(create_comau_robot, BestAssignment) # {}

C20_CalibratedA1 ==
    (prog = "find_correct_a1" /\ pc = "done") =>
        /\ Total(prog, 1) = 201
        /\ evals = 201
        /\ ret = <<ComauA1>>
        /\ ret[1] = create_comau_robot[1].a
        /\ best_error = 0
        /\ best_error < OneMm * OneMm
        /\ BestPosition = Target
        /\ \A k \in 0..200 :
              CandAt(prog, 1, k, <<>>) # ret => ErrAt(prog, 1, k, <<>>, Target) > 0

\* find_correct_a1 has returned
C20_Witness ==
    /\ prog = "find_correct_a1"
    /\ pc = "done"
    /\ ret = <<ComauA1>>
    /\ reports = << <<ret, Target, 0>> >>

\* the configured range of every loop of a nest, outermost first, as
\* <<lowest, highest, step>>
Ranges(p, ph) ==
    CASE p = "find_qn_configuration" /\ ph = 1 ->
            << <<45, 45, 1>>, <<-90, 90, 15>>, <<-90, 90, 15>>, <<0, 90, 45>>, <<0, 45, 45>> >>
      [] p = "find_qn_configuration" /\ ph = 2 ->
            << <<-10, 10, 2>>, <<-10, 10, 2>>, <<-10, 10, 2>> >>
      [] p = "find_paper_qn" ->
            << <<0, 90, 15>>, <<0, 90, 15>>, <<-90, 0, 15>>,
               <<0, 90, 30>>, <<0, 90, 30>>, <<0, 90, 45>> >>
      [] p = "find_qs_configuration" ->
            << <<-90, 180, 15>>, <<-90, 90, 15>> >>
      [] p = "find_all_missing_configs" ->
            << <<0, 90, 15>>, <<-90, 180, 15>>, <<-90, 90, 15>>,
               <<0, 90, 30>>, <<0, 90, 30>>, <<0, 0, 1>> >>
      [] p = "find_correct_a1" ->
            << <<0, 200, 1>> >>
      [] p = "test_different_conventions" ->
            << <<-180, 180, 15>> >>
      [] p = "test_dh_parameters" ->
            << <<-90, 90, 45>>, <<-90, 90, 45>> >>

\* number of values of a range, both ends included
RangeCount(r) == (r[2] - r[1]) \div r[3] + 1

RECURSIVE GridSize(_, _)
\* product of the value counts of the first d ranges
GridSize(rs, d) == IF d = 0 THEN 1 ELSE RangeCount(rs[d]) * GridSize(rs, d - 1)

GridTotal(p, ph) == GridSize(Ranges(p, ph), Len(Ranges(p, ph)))

RECURSIVE RankOfIdx(_, _, _)
\* number of iterations a loop nest has made before the one at indices ix
RankOfIdx(ix, rs, d) ==
    IF d = 0 THEN 0
    ELSE RankOfIdx(ix, rs, d - 1) * RangeCount(rs[d]) + (ix[d] - 1)

\* evaluations made by the loop nests that ended before the current one
EvalsBefore ==
    (target_i - 1) * GridTotal(prog, 1) + (IF phase = 2 THEN GridTotal(prog, 1) ELSE 0)

\* evaluations a script makes in all
EvalsInAll(p) ==
    Len(Targets(p)) * GridTotal(p, 1)
        + (IF p = "find_qn_configuration" THEN GridTotal(p, 2) ELSE 0)

SearchRunning == prog # "none" /\ pc = "loop"

\* C21: every loop of every nest runs over its configured range, both ends
\* included; the nest takes the points of the Cartesian product one by one in
\* nesting order, so that the number of fkine calls made is the number of
\* points passed, and is the product of the value counts when the nest ends
C21_State ==
    /\ SearchRunning =>
          LET rs == Ranges(prog, phase)
              dims == Dims(prog, phase)
          IN  /\ Len(dims) = Len(rs)
              /\ \A d \in 1..Len(rs) :
                    /\ Len(dims[d]) = RangeCount(rs[d])
                    /\ dims[d][1] = rs[d][1]
                    /\ dims[d][Len(dims[d])] = rs[d][2]
              /\ idx # <<>> =>
                    /\ \A d \in 1..Len(rs) :
                          /\ idx[d] \in 1..RangeCount(rs[d])
                          /\ dims[d][idx[d]] = rs[d][1] + (idx[d] - 1) * rs[d][3]
                    /\ evals = EvalsBefore + RankOfIdx(idx, rs, Len(rs))
              /\ idx = <<>> => evals = EvalsBefore + GridTotal(prog, phase)
    /\ pc = "done" => evals = EvalsInAll(prog)

\* steps a running script still has to take: the points not yet evaluated,
\* the loop nests still to start, and the return
StepsLeft ==
    (EvalsInAll(prog) - evals)
        + (Len(Targets(prog)) - target_i)
        + (IF prog = "find_qn_configuration" /\ phase = 1 THEN 1 ELSE 0)
        + (IF pc = "loop" THEN 1 ELSE 0)

\* C21: a running script can always take its next step, and has a bounded
\* number of steps left
C21_Progress ==
    SearchRunning =>
        /\ StepsLeft > 0
        /\ idx # <<>> => phase \in {1, 2}
        /\ idx = <<>> => ENABLED (StartRefine \/ NextTarget \/ Finish)

\* C21: every step evaluates at most one point and brings the script one
\* step nearer to its return
C21_Step ==
    /\ evals' = evals \/ evals' = evals + 1
    /\ StepsLeft' = StepsLeft - 1

\* C21: every grid search terminates, having evaluated every point once
C21_EveryPointOnce ==
    /\ [](C21_State /\ C21_Progress)
    /\ [][C21_Step]_vars

\* the last point of a grid, every loop at the upper end of its range, is
\* about to be evaluated
C21_Witness ==
    /\ SearchRunning
    /\ idx # <<>>
    /\ Len(idx) > 1
    /\ \A d \in 1..Len(idx) : Dims(prog, phase)[d][idx[d]] = Ranges(prog, phase)[d][2]
    /\ evals = EvalsBefore + GridTotal(prog, phase) - 1

Refining == prog = "find_qn_configuration" /\ phase = 2 /\ pc = "loop"

\* the deltas of the fine-tuning iteration at loop indices ix
Delta(ix, d) == -10 + 2 * (ix[d] - 1)

\* the candidate of the fine-tuning iteration at loop indices ix: the centre
\* with dq2, dq3 and dq5 added to joints 2, 3 and 5
Around(centre, ix) ==
    <<centre[1], centre[2] + Delta(ix, 1), centre[3] + Delta(ix, 2),
      centre[4], centre[5] + Delta(ix, 3), centre[6]>>

\* C22: while fine-tuning, the loop indices stand for deltas between -10 and
\* +10 degrees in steps of 2, and the best is the centre base_q or differs
\* from it by such deltas in joints 2, 3 and 5 only
C22_State ==
    Refining =>
        /\ Len(base_q) = 6
        /\ idx # <<>> =>
              \A d \in 1..3 :
                 /\ Delta(idx, d) \in -10..10
                 /\ Delta(idx, d) % 2 = 0
                 /\ Dims(prog, 2)[d][idx[d]] = Delta(idx, d)
        /\ Kept
        /\ BestAssignment[1] = base_q[1]
        /\ BestAssignment[4] = base_q[4]
        /\ BestAssignment[6] = base_q[6]
        /\ \A j \in {2, 3, 5} :
              /\ BestAssignment[j] - base_q[j] \in -10..10
              /\ (BestAssignment[j] - base_q[j]) % 2 = 0

\* C22: the centre is the best of the grid search, taken when the
\* fine-tuning starts; it stays where it is afterwards, and a fine-tuning
\* step that replaces the best replaces it by the candidate around that
\* centre
C22_Step ==
    /\ (phase = 1 /\ phase' = 2) => (base_q' = best_config[1] /\ best_config' = best_config)
    /\ (phase = 2 /\ phase' = 2) => base_q' = base_q
    /\ (phase = 2 /\ idx # <<>> /\ best_config' # best_config)
          => best_config'[1] = Around(base_q, idx)

C22_FixedCentre == []C22_State /\ [][C22_Step]_vars

\* the fine-tuning has replaced the best twice at least (joints 2, 3 and 5 all
\* differ from the centre), and the centre is still the grid search's best
C22_Witness ==
    /\ prog = "find_qn_configuration"
    /\ pc = "done"
    /\ base_q = <<45, -15, -30, 0, 0, 0>>
    /\ ret = <<45, -17, -34, 0, 6, 0>>

\* the candidate the loop nest is at, its position and its error
ThisCandidate == Config(prog, phase, Values(Dims(prog, phase), idx), base_q)

ThisPosition == Trans(fkine(SearchLinks(prog, ThisCandidate), SearchQ(prog, ThisCandidate)))

ThisError == Err2(ThisPosition, Target)

Smaller(a, b) == IF a < b THEN a ELSE b

\* C23: a step that processes a candidate leaves best_error at the smaller of
\* its old value and the candidate's error (so that, starting from infinity,
\* it is the minimum over the candidates processed so far); the assignment and
\* the position of the best change only together with best_error, to those of
\* the candidate just processed; within the search for one target best_error
\* never increases
C23_Step ==
    /\ (SearchRunning /\ idx # <<>>) =>
          /\ best_error' = Smaller(best_error, ThisError)
          /\ IF ThisError < best_error
             THEN best_config' = <<ThisCandidate, ThisPosition>>
             ELSE best_config' = best_config
    /\ (best_config' # best_config /\ target_i' = target_i) => best_error' < best_error
    /\ target_i' = target_i => best_error' <= best_error

\* C23: the best kept and best_error belong together: best_error is infinity
\* before the first candidate, and the error of the position kept afterwards
C23_State ==
    SearchRunning =>
        IF Kept THEN best_error = Err2(BestPosition, Target) /\ best_error < Inf
        ELSE best_error = Inf /\ evals = EvalsBefore

C23_RunningMinimum == []C23_State /\ [][C23_Step]_vars

\* the joint-2 offset search of diagnose_frames has replaced its best and has
\* then passed over a worse candidate
C23_Witness ==
    /\ prog = "test_different_conventions"
    /\ SearchRunning /\ idx # <<>> /\ Kept
    /\ evals >= 3
    /\ BestAssignment # CandAt(prog, 1, 0, <<>>)
    /\ BestAssignment # CandAt(prog, 1, evals - 1, <<>>)
    /\ ErrAt(prog, 1, evals - 1, <<>>, Target) > best_error

\* the search for a target is over in find_all_missing_configs
TargetSearched == prog = "find_all_missing_configs" /\ LoopEnded

\* C24: when the search for a target of find_all_missing_configs is over,
\* the best is fixed by the target and the grid alone: it is the first
\* candidate, in loop order, of the smallest error against this target over
\* the whole grid, whatever was searched before
C24_State ==
    /\ TargetSearched =>
          /\ Kept
          /\ best_error = Err2(Position(prog, BestAssignment), Target)
          /\ \A k \in 0..(Total(prog, 1) - 1) : ErrAt(prog, 1, k, <<>>, Target) >= best_error
          /\ \A k \in 0..(RankOfBest(1) - 1) : ErrAt(prog, 1, k, <<>>, Target) > best_error
    /\ (prog = "find_all_missing_configs" /\ pc = "done") =>
          /\ Len(reports) = 2
          /\ reports[2] = <<BestAssignment, BestPosition, best_error>>
          /\ reports[2][3] = Err2(reports[2][2], Targets(prog)[2])
          /\ reports[1][3] = Err2(reports[1][2], Targets(prog)[1])

\* C24: going on to the next target prints the best of the target just
\* searched and puts the search back where a search starts: best_error at
\* infinity, no best configuration, the loops at their first point
C24_Step ==
    (prog = "find_all_missing_configs" /\ target_i' # target_i) =>
        /\ target_i' = target_i + 1
        /\ reports' = Append(reports, <<BestAssignment, BestPosition, best_error>>)
        /\ best_error' = Inf
        /\ best_config' = <<>>
        /\ matches' = 0
        /\ first_match' = <<>>
        /\ idx' = <<1, 1, 1, 1, 1, 1>>

C24_TargetsIndependent == []C24_State /\ [][C24_Step]_vars

\* both targets searched: q_s found at [0, 45, -60, 0, 60, 0], then q_n at
\* [0, -45, 0, 0, 60, 0], with a larger error kept for the first than for the
\* second
C24_Witness ==
    /\ prog = "find_all_missing_configs"
    /\ pc = "done"
    /\ reports[1][1] = <<0, 45, -60, 0, 60, 0>>
    /\ reports[2][1] = <<0, -45, 0, 0, 60, 0>>
    /\ reports[1][3] > reports[2][3]

-----------------------------------------------------------------------------
(* validate_model: the validation harness *)

\* the four joint vectors of test_cases, in dict order: q_z, q_r, q_s, q_n
CaseNames == <<"q_z", "q_r", "q_s", "q_n">>

CaseQ == << Zeros, <<90, 0, 0, 0, 0, 0>>, <<0, 45, -60, 0, 60, 0>>, <<0, -45, 0, 0, 60, 0>> >>

\* the four reference positions of test_cases, in dict order
RefPositions == << <<8700, 0, 11700>>, <<0, 8700, 11700>>, <<4500, 0, 8700>>, <<11900, 0, 5010>> >>

\* test_cases as written in validate_model
PaperTable == [i \in 1..4 |-> [name |-> CaseNames[i], q |-> CaseQ[i], ref_pos |-> RefPositions[i]]]

\* the tables the loop is run on: the four cases of validate_model, each with
\* any of the four reference positions of the table (PaperTable is the one
\* with each case's own reference; the others hold cases that fail)
TestTables ==
    { [i \in 1..4 |-> [name |-> CaseNames[i], q |-> CaseQ[i], ref_pos |-> RefPositions[r[i]]]] :
        r \in [1..4 -> 1..4] }

\* tolerance = 0.05 (50 mm)
tolerance == 500

\* status = "pass" if error <= tolerance else "fail" (the tick or the cross)
StatusMark(error) == IF error <= tolerance * tolerance THEN "pass" ELSE "fail"

\* mutant: the failure branch taken above 1 mm
Failed_strict(error) == error > 10 * 10

\* if error > tolerance
Failed(error) == error > tolerance * tolerance

\* mutant: reference minus calculated
Deltas_reversed(calc_pos, ref_pos) ==
    <<ref_pos[1] - calc_pos[1], ref_pos[2] - calc_pos[2], ref_pos[3] - calc_pos[3]>>

\* the component-wise errors printed for a failed case
Deltas(calc_pos, ref_pos) ==
    <<calc_pos[1] - ref_pos[1], calc_pos[2] - ref_pos[2], calc_pos[3] - ref_pos[3]>>

\* mutant: the loop is left at the first failed case
NextCase_break(i, failed) == IF failed THEN Len(test_cases) + 1 ELSE i + 1

\* for name, case in test_cases.items(): the loop goes on to the next case
NextCase(i, failed) == i + 1

VlInit ==
    /\ test_cases \in TestTables
    /\ case_i = 1
    /\ all_passed = TRUE
    /\ rows = <<>>
    /\ vl_ret = <<>>
    /\ vl_pc = "loop"
    /\ FkIdle /\ SearchIdle /\ AppIdle

\* one iteration of the loop over test_cases: evaluate the case, print its
\* row and, if it failed, clear all_passed and print the error breakdown
\* (deltas = <<>>: no breakdown printed)
ValidateCase ==
    /\ vl_pc = "loop"
    /\ case_i <= Len(test_cases)
    /\ LET case == test_cases[case_i]
           calc_pos == Trans(fkine(create_comau_robot, case.q))
           error == Err2(calc_pos, case.ref_pos)
       IN  /\ rows' = Append(rows,
                [name |-> case.name, calc_pos |-> calc_pos, ref_pos |-> case.ref_pos,
                 error |-> error, status |-> StatusMark(error),
                 deltas |-> IF Failed(error) THEN Deltas(calc_pos, case.ref_pos) ELSE <<>>])
           /\ all_passed' = IF Failed(error) THEN FALSE ELSE all_passed
           /\ case_i' = NextCase(case_i, Failed(error))
    /\ UNCHANGED <<test_cases, vl_ret, vl_pc, fkVars, srVars, apVars>>

\* after the loop: the summary, the table of joint configurations, return all_passed
ValidateReturn ==
    /\ vl_pc = "loop"
    /\ case_i > Len(test_cases)
    /\ vl_ret' = <<all_passed>>
    /\ vl_pc' = "done"
    /\ UNCHANGED <<test_cases, case_i, all_passed, rows, fkVars, srVars, apVars>>

VlNext == ValidateCase \/ ValidateReturn

SpecValidate == VlInit /\ [][VlNext]_vars

-----------------------------------------------------------------------------
(* Claims about the validation harness, checked under SpecValidate *)

\* the position error of case i of the table, computed from the table alone
CaseError(i) ==
    Err2(Trans(fkine(create_comau_robot, test_cases[i].q)), test_cases[i].ref_pos)

\* the tolerance that applies to a case: its own if the case gives one, else
\* the harness's
CaseTol(case) == IF "tolerance" \in DOMAIN case THEN case.tolerance ELSE tolerance

CasePasses(i) == CaseError(i) <= CaseTol(test_cases[i]) * CaseTol(test_cases[i])

ValidateDone == vl_pc = "done"

\* C11: the harness evaluates and reports every case in table order whatever
\* the earlier outcomes were: while the loop runs the rows printed are those of
\* the first case_i - 1 cases, a failed case is followed by the remaining
\* cases, at the return all cases have a row, and all_passed (and the value
\* returned) is true exactly when every case evaluated so far passed
C11_State ==
    /\ vl_pc = "loop" => Len(rows) = case_i - 1
    /\ Len(rows) <= Len(test_cases)
    /\ \A i \in 1..Len(rows) :
          /\ rows[i].name = test_cases[i].name
          /\ rows[i].error = CaseError(i)
    /\ all_passed = (\A i \in 1..Len(rows) : CasePasses(i))
    /\ ValidateDone =>
          /\ Len(rows) = Len(test_cases)
          /\ vl_ret = <<\A i \in 1..Len(test_cases) : CasePasses(i)>>

\* C11: once all_passed is false it is never true again
C11_Step == (all_passed = FALSE) => (all_passed' = FALSE)

C11_EveryCaseRuns == []C11_State /\ [][C11_Step]_vars

\* one failed case followed by a passed one, both reported, False returned
C11_Witness ==
    /\ ValidateDone
    /\ vl_ret = <<FALSE>>
    /\ \E i, j \in 1..Len(rows) :
          i < j /\ rows[i].status = "fail" /\ rows[j].status = "pass"

SignedDeltas(row) ==
    <<row.calc_pos[1] - row.ref_pos[1], row.calc_pos[2] - row.ref_pos[2],
      row.calc_pos[3] - row.ref_pos[3]>>

\* C13 as stated, on the table written in validate_model: the report holds the
\* signed per-axis deltas of every case, passed or failed
C13_DeltasForEveryCase ==
    test_cases = PaperTable =>
        \A i \in 1..Len(rows) : rows[i].deltas = SignedDeltas(rows[i])

\* C13 amended: the report holds the pass/fail mark of every case, the signed
\* per-axis deltas (calculated minus reference) of exactly the failed cases,
\* and the overall boolean
C13_DeltasForFailedCases ==
    /\ \A i \in 1..Len(rows) :
          /\ rows[i].status \in {"pass", "fail"}
          /\ rows[i].status = "fail" => rows[i].deltas = SignedDeltas(rows[i])
          /\ rows[i].status = "pass" => rows[i].deltas = <<>>
    /\ ValidateDone => vl_ret \in {<<TRUE>>, <<FALSE>>}

\* a failed case reported with a negative and a positive delta, and a passed
\* case reported without deltas
C13_Witness ==
    /\ ValidateDone
    /\ \E i \in 1..Len(rows) :
          /\ rows[i].status = "fail"
          /\ \E a, b \in 1..3 : rows[i].deltas[a] < 0 /\ rows[i].deltas[b] > 0
    /\ \E i \in 1..Len(rows) : rows[i].status = "pass" /\ rows[i].deltas = <<>>

-----------------------------------------------------------------------------
(* app.py: the web application.  Joint angles of a request are whole       *)
(* degrees here, as everywhere in this module.                             *)

\* JSON values of the keys q1..q6 of a request body: absent, a number, or a
\* value that is not a number (a string)
Missing == [type |-> "missing", num |-> 0]
Num(a) == [type |-> "number", num |-> a]
NotNumber == [type |-> "string", num |-> 0]

JsonValues == {Missing, NotNumber} \cup {Num(a) : a \in QuarterAngles}

\* a request body: a JSON object with the keys q1..q6, or the JSON value null
Object(v) == [kind |-> "object", get |-> v]
Null == [kind |-> "null", get |-> <<>>]
NoRequest == [kind |-> "none", get |-> <<>>]

RequestBodies ==
    { Object(<<v1, v2, Missing, Missing, v5, Missing>>) :
        v1 \in JsonValues, v2 \in {Missing, NotNumber}, v5 \in {Missing, Num(90)} }
    \cup {Null}

\* data.get('qk', 0)
Get(d, k) == IF d.get[k].type = "missing" THEN Num(0) ELSE d.get[k]

\* q = np.array([data.get('q1', 0), ..., data.get('q6', 0)])
JointArray(d) == <<Get(d, 1), Get(d, 2), Get(d, 3), Get(d, 4), Get(d, 5), Get(d, 6)>>

Numeric(qv) == \A k \in 1..6 : qv[k].type = "number"

Angles(qv) == <<qv[1].num, qv[2].num, qv[3].num, qv[4].num, qv[5].num, qv[6].num>>

\* text of the exception fkine_all raises on an array that is not numeric
ErrorText == "joint array is not numeric"

\* all_transforms = robot.fkine_all(q): raises on an array that is not
\* numeric; returns the link frames, preceded by the base frame when the
\* installed toolbox returns it
FkineAllCall(links, qv, base) ==
    IF ~Numeric(qv)
    THEN [raised |-> TRUE, msg |-> ErrorText, frames |-> <<>>]
    ELSE [raised |-> FALSE, msg |-> "",
          frames |-> IF base THEN fkine_all(links, Angles(qv))
                     ELSE Tail(fkine_all(links, Angles(qv)))]

\* T.A.tolist(): the 4x4 matrix as nested lists, fourth row [0, 0, 0, 1]
ToList(T) == <<T[1], T[2], T[3], <<0, 0, 0, Scale>> >>

RECURSIVE AllToList(_, _)
\* [T.A.tolist() for T in all_transforms]
AllToList(ts, n) == IF n = 0 THEN <<>> ELSE Append(AllToList(ts, n - 1), ToList(ts[n]))

\* mutant: the list is sent as the engine returned it
EnsureSeven_asis(ts) == ts

\* if len > 7: keep the first 7; elif len < 7: insert np.eye(4) at the front
EnsureSeven(ts) ==
    IF Len(ts) > 7 THEN SubSeq(ts, 1, 7)
    ELSE IF Len(ts) < 7 THEN <<ToList(Identity)>> \o ts
    ELSE ts

NoResponse == [status |-> 0, json |-> FALSE, transforms |-> <<>>, error |-> ""]

\* return jsonify(transforms=transforms_list)
Success(ts) == [status |-> 200, json |-> TRUE, transforms |-> ts, error |-> ""]

\* mutant: the error is sent with the default status
ErrorResponse_ok(msg) == [status |-> 200, json |-> TRUE, transforms |-> <<>>, error |-> msg]

\* return jsonify(error=str(e)), 500
ErrorResponse(msg) == [status |-> 500, json |-> TRUE, transforms |-> <<>>, error |-> msg]

\* the answer to an exception raised outside the try block
Unhandled == [status |-> 500, json |-> FALSE, transforms |-> <<>>, error |-> ""]

\* render_template('index.html')
Page == [status |-> 200, json |-> FALSE, transforms |-> <<>>, error |-> ""]

\* the try block of fkine
TryBlock(links, qv, base) ==
    LET r == FkineAllCall(links, qv, base)
    IN  IF r.raised
        THEN [exc |-> r.msg, response |-> ErrorResponse(r.msg)]
        ELSE [exc |-> "",
              response |-> Success(EnsureSeven(AllToList(r.frames, Len(r.frames))))]

\* another request was answered after the first /fkine request
OtherServed == IF first_call = <<>> THEN first_call ELSE [first_call EXCEPT ![3] = 1]

\* a /fkine request with joint array qv got the response resp
FkineServed(qv, resp) ==
    IF first_call = <<>> THEN <<qv, resp, 0, 0>>
    ELSE IF qv = first_call[1] THEN [first_call EXCEPT ![4] = first_call[3]]
    ELSE OtherServed

\* what fkine does with a request body, the robot apart: data.get on null
\* raises outside the try block; otherwise the try block answers
Answer(d) ==
    /\ data' = d
    /\ IF d.kind = "null"
       THEN /\ exc' = ""
            /\ response' = Unhandled
            /\ first_call' = OtherServed
       ELSE LET r == TryBlock(robot, JointArray(d), with_base)
            IN  /\ exc' = r.exc
                /\ response' = r.response
                /\ first_call' = FkineServed(JointArray(d), r.response)

\* mutant: the robot is created again for every request
FkineRequest_rebuilds(d) ==
    /\ Answer(d)
    /\ robot' = create_comau_robot
    /\ created' = created + 1
    /\ UNCHANGED <<with_base, fkVars, srVars, vlVars>>

\* mutant: the request's q1 is left in the robot as the offset of joint 1
FkineRequest_keeps_q(d) ==
    /\ Answer(d)
    /\ robot' = IF d.kind = "object" /\ Get(d, 1).type = "number"
                THEN [robot EXCEPT ![1].offset = Get(d, 1).num]
                ELSE robot
    /\ UNCHANGED <<created, with_base, fkVars, srVars, vlVars>>

\* POST /fkine
FkineRequest(d) ==
    /\ Answer(d)
    /\ UNCHANGED <<robot, created, with_base, fkVars, srVars, vlVars>>

\* GET /
Index ==
    /\ response' = Page
    /\ exc' = ""
    /\ data' = NoRequest
    /\ first_call' = OtherServed
    /\ UNCHANGED <<robot, created, with_base, fkVars, srVars, vlVars>>

\* the module body of app.py: robot = create_comau_robot(), once
AppInit ==
    /\ robot = create_comau_robot
    /\ created = 1
    /\ with_base \in BOOLEAN
    /\ data = NoRequest
    /\ exc = ""
    /\ response = NoResponse
    /\ first_call = <<>>
    /\ FkIdle /\ SearchIdle /\ ValidateIdle

AppNext == Index \/ \E d \in RequestBodies : FkineRequest(d)

SpecApp == AppInit /\ [][AppNext]_vars

-----------------------------------------------------------------------------
(* Claims about the web application, checked under SpecApp *)

\* the last request was answered with a list of transforms
Succeeded == response.status = 200 /\ response.json

\* the 4x4 matrix of a frame, written out
Matrix4(T) == <<T[1], T[2], T[3], <<0, 0, 0, Scale>> >>

\* the frame of link n for the body's joint angles, from the links of
\* create_comau_robot
LinkFrame(d, n) == Matrix4(Pose(create_comau_robot, Angles(JointArray(d)), n))

BadJoints(d) == d.kind = "object" /\ \E k \in 1..6 : Get(d, k).type = "string"

\* C15: a failure of the computation inside the try block is answered with
\* status 500 and the text of the exception, never with status 200 and never
\* with transforms; a response with transforms has all 7 and no error text
C15_FailureIs500 ==
    /\ BadJoints(data) => exc # ""
    /\ exc # "" =>
          /\ response.status = 500
          /\ response.json
          /\ response.error = exc
          /\ response.transforms = <<>>
    /\ Succeeded => exc = "" /\ response.error = "" /\ Len(response.transforms) = 7

\* a request with a joint value that is not a number, answered 500 with the
\* exception's text
C15_Witness ==
    /\ BadJoints(data)
    /\ response.status = 500
    /\ response.error = ErrorText

\* C16: a request with the joint vector of the first request answered gets
\* the response the first request got, whatever requests came in between
C16_SameAnswer ==
    (first_call # <<>> /\ data.kind = "object" /\ JointArray(data) = first_call[1])
        => response = first_call[2]

\* a successful request, then another request, then the first joint vector
\* once more: the response is the first one again, and differs from the
\* response to another vector
C16_Witness ==
    /\ first_call # <<>>
    /\ first_call[4] = 1
    /\ first_call[2].status = 200
    /\ Angles(first_call[1]) # Zeros
    /\ data.kind = "object"
    /\ JointArray(data) = first_call[1]
    /\ response = first_call[2]
    /\ response # Success(EnsureSeven(AllToList(fkine_all(robot, Zeros), 7)))

\* C17: the robot is created once, and every request, answered or failed,
\* leaves d, a, alpha, offset and qlim of its six links as create_comau_robot
\* set them
C17_State ==
    /\ created = 1
    /\ Len(robot) = 6
    /\ \A k \in 1..6 :
          /\ robot[k].d = create_comau_robot[k].d
          /\ robot[k].a = create_comau_robot[k].a
          /\ robot[k].alpha = create_comau_robot[k].alpha
          /\ robot[k].offset = create_comau_robot[k].offset
          /\ robot[k].qlim = create_comau_robot[k].qlim

C17_Step == robot' = robot /\ created' = created

C17_ChainImmutable == []C17_State /\ [][C17_Step]_vars

\* a request that failed after one that succeeded, the robot as created
C17_Witness ==
    /\ first_call # <<>>
    /\ first_call[2].status = 200
    /\ response.status = 500
    /\ exc # ""
    /\ robot = create_comau_robot

=============================================================================
